---- MODULE Spec2Model ----
(***************************************************************************)
(* A model of the hakoniwa world-simulation kernel (src/src/lib.rs):       *)
(* the hierarchical Time value with its carry arithmetic, and the per-tick *)
(* update `run` over a Context (time, event memory, object registry).      *)
(***************************************************************************)
EXTENDS Integers, Sequences, FiniteSets, TLC

VARIABLES
  t,        \* the Time value the Time operations act on
  tlast,    \* the last Time operation: its name, receiver before, arguments, outcome
  pure,     \* TRUE while t comes from Time::new through plus/plus_one/add/minus only
  calls,    \* number of plus_one calls made since Time::new(0, d, y) (carry scenario)
  ctx,      \* the Context: [time, memory, objects]
  last,     \* the last call of run: receiver before, generator outputs, views, ids
  ticks,    \* number of calls of run so far
  epoch     \* the time the Context was constructed with

vars == <<t, tlast, pure, calls, ctx, last, ticks, epoch>>

----------------------------------------------------------------------------
(* Bounds of the model *)

MaxAll == 4        \* largest `all` of a Time in the Time specification
MaxRatio == 2      \* largest one_day_of_time / one_year_of_day drawn
MaxCarryRatio == 4 \* largest ratio drawn in the carry scenario
MaxTick == 1       \* calls of run in a behaviour of Spec
MaxTicks == 2      \* calls of run in a behaviour of SpecTicks
MaxLife == 1       \* largest lifetime of an event, in unit-ticks

(* The calendar of examples/world1.rs *)
DAY_OF_TIME == 24
YEAR_OF_DAY == 365

----------------------------------------------------------------------------
(* Option<T> *)

None == [some |-> FALSE]
Some(v) == [some |-> TRUE, val |-> v]

----------------------------------------------------------------------------
(* struct Time and its operations *)

\* Time::new: every derived field by division/modulo of `all`
TimeNew(all, one_day_of_time, one_year_of_day) ==
  LET day == all \div one_day_of_time
      remainder_time == all % one_day_of_time
      year == day \div one_year_of_day
      remainder_day == all % one_year_of_day
  IN [all |-> all,
      one_day_of_time |-> one_day_of_time,
      day |-> day,
      remainder_time |-> remainder_time,
      one_year_of_day |-> one_year_of_day,
      year |-> year,
      remainder_day |-> remainder_day]

\* Time::make: built from year, day of year and time of day; no division
TimeMake(year, day0, time, one_day_of_time, one_year_of_day) ==
  LET remainder_day == day0
      day == one_year_of_day * year + remainder_day
      all == one_day_of_time * day + time
  IN [all |-> all,
      one_day_of_time |-> one_day_of_time,
      day |-> day,
      remainder_time |-> time,
      one_year_of_day |-> one_year_of_day,
      year |-> year,
      remainder_day |-> remainder_day]

\* a BigUint division or modulo by zero panics
DivPanics(one_day_of_time, one_year_of_day) ==
  one_day_of_time = 0 \/ one_year_of_day = 0

\* a plus that forgets the carry of days into the year
TimePlusNoYearCarry(self, time) ==
  LET new_remainder_time == self.remainder_time + time
      plus_day == new_remainder_time \div self.one_day_of_time
  IN [self EXCEPT !.all = self.all + time,
                  !.day = self.day + plus_day,
                  !.remainder_time = new_remainder_time % self.one_day_of_time,
                  !.remainder_day = self.remainder_day + plus_day]

\* a plus that adds the delta to remainder_time without reducing it
TimePlusNoDayCarry(self, time) ==
  [self EXCEPT !.all = self.all + time,
               !.remainder_time = self.remainder_time + time]

\* Time::plus: carry-propagating advance
TimePlus(self, time) ==
  LET all == self.all + time
      new_remainder_time == self.remainder_time + time
      plus_day == new_remainder_time \div self.one_day_of_time
      day == self.day + plus_day
      remainder_time == new_remainder_time % self.one_day_of_time
      new_remainder_day == self.remainder_day + plus_day
      year == self.year + (new_remainder_day \div self.one_year_of_day)
      remainder_day == new_remainder_day % self.one_year_of_day
  IN [self EXCEPT !.all = all,
                  !.day = day,
                  !.remainder_time = remainder_time,
                  !.year = year,
                  !.remainder_day = remainder_day]

\* a plus_one that advances by two unit-ticks
TimePlusTwo(self) == TimePlus(self, 2)

\* Time::plus_one
TimePlusOne(self) == TimePlus(self, 1)

\* a change_rule that recomputes every field from `all`
TimeChangeRuleFromAll(self, one_day_of_time, one_year_of_day) ==
  TimeNew(self.all, one_day_of_time, one_year_of_day)

\* Time::change_rule: carries re-derived from the current remainders
TimeChangeRule(self, one_day_of_time, one_year_of_day) ==
  LET plus_day == self.remainder_time \div one_day_of_time
      day == self.day + plus_day
      remainder_time == self.remainder_time % one_day_of_time
      new_remainder_day == self.remainder_day + plus_day
      year == self.year + (new_remainder_day \div one_year_of_day)
      remainder_day == new_remainder_day % one_year_of_day
  IN [self EXCEPT !.one_day_of_time = one_day_of_time,
                  !.day = day,
                  !.remainder_time = remainder_time,
                  !.one_year_of_day = one_year_of_day,
                  !.year = year,
                  !.remainder_day = remainder_day]

\* Time::add
TimeAdd(self, other) ==
  TimeNew(self.all + other.all, self.one_day_of_time, self.one_year_of_day)

\* a minus that also refuses equal operands
TimeMinusStrict(self, other) ==
  IF self.all <= other.all
  THEN None
  ELSE Some(TimeNew(self.all - other.all, self.one_day_of_time, self.one_year_of_day))

\* Time::minus: None when the right operand is larger
TimeMinus(self, other) ==
  IF self.all < other.all
  THEN None
  ELSE Some(TimeNew(self.all - other.all, self.one_day_of_time, self.one_year_of_day))

----------------------------------------------------------------------------
(* Point, ObjectType, Object, EventContents, Event, Context, GeneratedData *)

Point(x, y) == [x |-> x, y |-> y]

\* struct Object, as run builds it from an ObjectType variant o
\* an Object placed at the origin instead of where its variant says
MakeObjectAtOrigin(o, now) ==
  [generated_time |-> now, point |-> [x |-> 0, y |-> 0], object_type |-> o]

MakeObject(o, now) ==
  [generated_time |-> now, point |-> o.generated_point, object_type |-> o]

\* an Event built without asking the contents for its lifetime
MakeEventNoLifetime(e, now) ==
  [generated_time |-> now,
   lifetime |-> None,
   contents |-> e,
   do_object |-> e.do_object,
   target_object |-> e.target_object_opt]

\* struct Event, as run builds it from an EventContents variant e
MakeEvent(e, now) ==
  [generated_time |-> now,
   lifetime |-> e.lifetime,
   contents |-> e,
   do_object |-> e.do_object,
   target_object |-> e.target_object_opt]

GeneratedData(events, generate_objects, remove_objects) ==
  [events |-> events,
   generate_objects |-> generate_objects,
   remove_objects |-> remove_objects]

\* FxHashMap::insert / FxHashMap::remove on the registry
MapInsert(m, k, v) == [x \in (DOMAIN m) \cup {k} |-> IF x = k THEN v ELSE m[x]]
MapRemove(m, k) == [x \in (DOMAIN m) \ {k} |-> m[x]]

\* Context::new: the pairs are inserted in order, memory starts empty
RECURSIVE InsertPairs(_, _, _)
InsertPairs(objects, o, i) ==
  IF i > Len(o) THEN objects
  ELSE InsertPairs(MapInsert(objects, o[i][1], o[i][2]), o, i + 1)

ContextNew(start, o) ==
  [time |-> start, memory |-> <<>>, objects |-> InsertPairs(<<>>, o, 1)]

----------------------------------------------------------------------------
(* run: one tick *)

\* a filter closure that applies the comparison to every event, taking an
\* absent lifetime as zero
KeepEventNoForever(e, now) ==
  IF e.lifetime.some
  THEN e.generated_time.all + e.lifetime.val.all < now.all
  ELSE FALSE

\* the filter closure of run: TRUE keeps the event
KeepEvent(e, now) ==
  IF e.lifetime.some
  THEN e.generated_time.all + e.lifetime.val.all < now.all
  ELSE TRUE

\* ctx.memory.iter().filter(..).cloned().collect()
FilterMemory(memory, now) == SelectSeq(memory, LAMBDA e : KeepEvent(e, now))

\* an append with receiver and argument swapped: new_events.append(&mut ctx.memory)
VecAppendSwapped(self, other) == [self |-> <<>>, other |-> other \o self]

\* Vec::append: moves every element of other into self, leaving other empty
VecAppend(self, other) == [self |-> self \o other, other |-> <<>>]

\* a loop body that applies a generator's removals to ctx at once
LoopBodyEager(st, gd, ids, now) ==
  LET n == Len(st.new_objects)
      rm == [x \in (DOMAIN st.ctx.objects) \ {gd.remove_objects[i] : i \in 1..Len(gd.remove_objects)}
               |-> st.ctx.objects[x]]
  IN [ctx |-> [st.ctx EXCEPT !.objects = rm],
      views |-> Append(st.views, st.ctx),
      generated_data_lst |-> Append(st.generated_data_lst, gd),
      new_events |-> st.new_events \o
         [i \in 1..Len(gd.events) |-> MakeEvent(gd.events[i], now)],
      remove_object_id |-> st.remove_object_id \o gd.remove_objects,
      new_objects |-> st.new_objects \o
         [i \in 1..Len(gd.generate_objects) |->
            <<ids[n + i], MakeObject(gd.generate_objects[i], now)>>]]

\* a loop body that keeps only the removals of the generator it is at
LoopBodyLastRemoval(st, gd, ids, now) ==
  LET n == Len(st.new_objects)
  IN [ctx |-> st.ctx,
      views |-> Append(st.views, st.ctx),
      generated_data_lst |-> Append(st.generated_data_lst, gd),
      new_events |-> st.new_events \o
         [i \in 1..Len(gd.events) |-> MakeEvent(gd.events[i], now)],
      remove_object_id |-> gd.remove_objects,
      new_objects |-> st.new_objects \o
         [i \in 1..Len(gd.generate_objects) |->
            <<ids[n + i], MakeObject(gd.generate_objects[i], now)>>]]

\* one iteration of `for f in generate_functions.iter()`: f(ctx) is called on
\* st.ctx and returns gd; ids are the results of generate_object_id, in call order
LoopBody(st, gd, ids, now) ==
  LET n == Len(st.new_objects)
  IN [ctx |-> st.ctx,
      views |-> Append(st.views, st.ctx),
      generated_data_lst |-> Append(st.generated_data_lst, gd),
      new_events |-> st.new_events \o
         [i \in 1..Len(gd.events) |-> MakeEvent(gd.events[i], now)],
      remove_object_id |-> st.remove_object_id \o gd.remove_objects,
      new_objects |-> st.new_objects \o
         [i \in 1..Len(gd.generate_objects) |->
            <<ids[n + i], MakeObject(gd.generate_objects[i], now)>>]]

RECURSIVE GenLoop(_, _, _, _, _)
GenLoop(st, outs, ids, now, k) ==
  IF k > Len(outs) THEN st
  ELSE GenLoop(LoopBody(st, outs[k], ids, now), outs, ids, now, k + 1)

\* a removal with the test inverted: only the listed ids are retained
RemoveAllInverted(objects, remove_object_id) ==
  [x \in (DOMAIN objects) \cap {remove_object_id[i] : i \in 1..Len(remove_object_id)}
     |-> objects[x]]

\* a removal loop that removes nothing
RemoveNone(objects, remove_object_id) == objects

\* for object_id in remove_object_id.iter() { ctx.objects.remove(object_id); }
RemoveAll(objects, remove_object_id) ==
  [x \in (DOMAIN objects) \ {remove_object_id[i] : i \in 1..Len(remove_object_id)}
     |-> objects[x]]

\* for e in new_events.iter() { relocate }, over the vector as it is at that point
RECURSIVE Relocate(_, _, _)
Relocate(objects, new_events, i) ==
  IF i > Len(new_events) THEN objects
  ELSE LET mv == new_events[i].contents.move_object_opt
       IN IF mv.some /\ mv.val[1] \in DOMAIN objects
          THEN Relocate(MapInsert(objects, mv.val[1],
                          [objects[mv.val[1]] EXCEPT !.point = mv.val[2]]),
                        new_events, i + 1)
          ELSE Relocate(objects, new_events, i + 1)

\* the whole of run(ctx, generate_functions); outs[k] is what the k-th generator
\* returns, ids what generate_object_id returns call after call
Run(c, outs, ids) ==
  LET time == TimePlusOne(c.time)
      now == time
      new_memory == FilterMemory(c.memory, now)
      c1 == [c EXCEPT !.time = time, !.memory = new_memory]
      st0 == [ctx |-> c1, views |-> <<>>, generated_data_lst |-> <<>>,
              new_events |-> <<>>, remove_object_id |-> <<>>, new_objects |-> <<>>]
      st == GenLoop(st0, outs, ids, now, 1)
      objects1 == RemoveAll(st.ctx.objects, st.remove_object_id)
      ap == VecAppend(st.ctx.memory, st.new_events)
      objects2 == Relocate(objects1, ap.other, 1)
      objects3 == RemoveAll(objects2, st.remove_object_id)
      objects4 == InsertPairs(objects3, st.new_objects, 1)
  IN [ctx |-> [time |-> time, memory |-> ap.self, objects |-> objects4],
      ret |-> st.generated_data_lst,
      views |-> st.views,
      new_events |-> st.new_events,
      new_objects |-> st.new_objects,
      remove_object_id |-> st.remove_object_id]

----------------------------------------------------------------------------
(* The Time specification: one Time value, every public operation *)

Ratios == 0..MaxRatio
Alls == 0..MaxAll

TRecord(op, pre, args, panic, none) ==
  [op |-> op, pre |-> pre, args |-> args, panic |-> panic, none |-> none]

\* the record of a call of run
LastRun(ran, pre, outs, ids, r) ==
  [ran |-> ran, pre |-> pre, outs |-> outs, ids |-> ids,
   views |-> r.views, ret |-> r.ret]

NoRun == [views |-> <<>>, ret |-> <<>>]

WorldIdle ==
  /\ ctx = ContextNew(TimeNew(0, 1, 1), <<>>)
  /\ last = LastRun(FALSE, ContextNew(TimeNew(0, 1, 1), <<>>), <<>>, <<>>, NoRun)
  /\ ticks = 0
  /\ epoch = TimeNew(0, 1, 1)

TimeIdle ==
  /\ t = TimeNew(0, 1, 1)
  /\ tlast = TRecord("new", TimeNew(0, 1, 1), <<0, 1, 1>>, FALSE, FALSE)
  /\ pure = TRUE
  /\ calls = 0

TimeInit ==
  /\ \E a \in Alls, d \in 1..MaxRatio, y \in 1..MaxRatio :
       /\ t = TimeNew(a, d, y)
       /\ tlast = TRecord("new", TimeNew(a, d, y), <<a, d, y>>, FALSE, FALSE)
  /\ pure = TRUE
  /\ calls = 0
  /\ WorldIdle

\* let t = Time::new(a, d, y): a constructor, the receiver recorded is its result
TNew(a, d, y) ==
  /\ IF DivPanics(d, y)
     THEN /\ tlast' = TRecord("new", t, <<a, d, y>>, TRUE, FALSE)
          /\ UNCHANGED <<t, pure>>
     ELSE /\ t' = TimeNew(a, d, y)
          /\ tlast' = TRecord("new", TimeNew(a, d, y), <<a, d, y>>, FALSE, FALSE)
          /\ pure' = TRUE
  /\ UNCHANGED <<calls, ctx, last, ticks, epoch>>

\* let t = Time::make(year, day, time, d, y)
TMake(year, day, time, d, y) ==
  /\ TimeMake(year, day, time, d, y).all <= MaxAll
  /\ t' = TimeMake(year, day, time, d, y)
  /\ tlast' = TRecord("make", TimeMake(year, day, time, d, y),
                      <<year, day, time, d, y>>, FALSE, FALSE)
  /\ pure' = FALSE
  /\ UNCHANGED <<calls, ctx, last, ticks, epoch>>

\* t.plus(n)
TPlus(n) ==
  /\ t.all + n <= MaxAll
  /\ IF DivPanics(t.one_day_of_time, t.one_year_of_day)
     THEN /\ tlast' = TRecord("plus", t, <<n>>, TRUE, FALSE)
          /\ UNCHANGED t
     ELSE /\ t' = TimePlus(t, n)
          /\ tlast' = TRecord("plus", t, <<n>>, FALSE, FALSE)
  /\ UNCHANGED <<pure, calls, ctx, last, ticks, epoch>>

\* t.plus_one()
TPlusOne ==
  /\ t.all + 1 <= MaxAll
  /\ IF DivPanics(t.one_day_of_time, t.one_year_of_day)
     THEN /\ tlast' = TRecord("plus_one", t, <<>>, TRUE, FALSE)
          /\ UNCHANGED t
     ELSE /\ t' = TimePlusOne(t)
          /\ tlast' = TRecord("plus_one", t, <<>>, FALSE, FALSE)
  /\ UNCHANGED <<pure, calls, ctx, last, ticks, epoch>>

\* t.change_rule(d, y)
TChangeRule(d, y) ==
  /\ IF DivPanics(d, y)
     THEN /\ tlast' = TRecord("change_rule", t, <<d, y>>, TRUE, FALSE)
          /\ UNCHANGED <<t, pure>>
     ELSE /\ t' = TimeChangeRule(t, d, y)
          /\ tlast' = TRecord("change_rule", t, <<d, y>>, FALSE, FALSE)
          /\ pure' = FALSE
  /\ UNCHANGED <<calls, ctx, last, ticks, epoch>>

\* t = t.add(&other), other = Time::new(b, d, y)
TAdd(b, d, y) ==
  /\ t.all + b <= MaxAll
  /\ IF DivPanics(t.one_day_of_time, t.one_year_of_day)
     THEN /\ tlast' = TRecord("add", t, <<b, d, y>>, TRUE, FALSE)
          /\ UNCHANGED t
     ELSE /\ t' = TimeAdd(t, TimeNew(b, d, y))
          /\ tlast' = TRecord("add", t, <<b, d, y>>, FALSE, FALSE)
  /\ UNCHANGED <<pure, calls, ctx, last, ticks, epoch>>

\* if let Some(r) = t.minus(&other) { t = r }, other = Time::new(b, d, y)
TMinus(b, d, y) ==
  /\ IF t.all >= b /\ DivPanics(t.one_day_of_time, t.one_year_of_day)
     THEN /\ tlast' = TRecord("minus", t, <<b, d, y>>, TRUE, FALSE)
          /\ UNCHANGED t
     ELSE LET r == TimeMinus(t, TimeNew(b, d, y))
          IN /\ t' = IF r.some THEN r.val ELSE t
             /\ tlast' = TRecord("minus", t, <<b, d, y>>, FALSE, ~r.some)
  /\ UNCHANGED <<pure, calls, ctx, last, ticks, epoch>>

\* the ratio pairs a division panics on
ZeroRatios == {<<0, 0>>, <<0, 1>>, <<1, 0>>}

TimeNext ==
  \/ \E a \in Alls, d \in 1..MaxRatio, y \in 1..MaxRatio : TNew(a, d, y)
  \/ \E a \in {0, MaxAll}, z \in ZeroRatios : TNew(a, z[1], z[2])
  \/ \E year \in 0..1, day \in 0..1, time \in 0..1, d \in {0, MaxRatio}, y \in {0, MaxRatio} :
       TMake(year, day, time, d, y)
  \/ \E n \in Alls : TPlus(n)
  \/ TPlusOne
  \/ \E d \in 1..MaxRatio, y \in 1..MaxRatio : TChangeRule(d, y)
  \/ \E z \in ZeroRatios : TChangeRule(z[1], z[2])
  \/ \E b \in Alls : TAdd(b, MaxRatio, 1)
  \/ \E b \in Alls : TMinus(b, MaxRatio, 1)

SpecTime == TimeInit /\ [][TimeNext]_vars

----------------------------------------------------------------------------
(* The carry scenario: Time::new(0, d, y) followed by plus_one calls only *)

CarryRatios ==
  ((1..MaxCarryRatio) \X (1..MaxCarryRatio)) \cup {<<DAY_OF_TIME, YEAR_OF_DAY>>}

CarryInit ==
  /\ \E r \in CarryRatios :
       /\ t = TimeNew(0, r[1], r[2])
       /\ tlast = TRecord("new", TimeNew(0, r[1], r[2]), <<0, r[1], r[2]>>, FALSE, FALSE)
  /\ pure = TRUE
  /\ calls = 0
  /\ WorldIdle

\* t.plus_one(), counted
CarryPlusOne ==
  /\ calls < t.one_day_of_time + t.one_day_of_time * t.one_year_of_day
  /\ t' = TimePlusOne(t)
  /\ calls' = calls + 1
  /\ UNCHANGED <<tlast, pure, ctx, last, ticks, epoch>>

CarryNext == CarryPlusOne

SpecCarry == CarryInit /\ [][CarryNext]_vars

----------------------------------------------------------------------------
(* The world specification: a Context and calls of run on it *)

Ids == {"a", "b"}
P0 == Point(0, 0)
P1 == Point(5, 5)

\* ObjectType variants of the host
Tree == [name |-> "tree", generated_point |-> P0]
Seed == [name |-> "seed", generated_point |-> P1]
\* a variant with the name and the origin of Seed that carries more data
Sapling == [name |-> "seed", generated_point |-> P1, children_range_x |-> 1]

\* EventContents variants of the host
Move(id) ==
  [move_object_opt |-> Some(<<id, P1>>), lifetime |-> None,
   do_object |-> id, target_object_opt |-> None]
Plain(l) ==
  [move_object_opt |-> None, lifetime |-> Some(TimeNew(l, MaxRatio, MaxRatio)),
   do_object |-> "a", target_object_opt |-> Some("b")]
Forever ==
  [move_object_opt |-> None, lifetime |-> None,
   do_object |-> "b", target_object_opt |-> None]

\* what one generator may return
GenOutputs ==
  {GeneratedData(<<>>, <<>>, <<>>),
   GeneratedData(<<Move("a")>>, <<>>, <<>>),
   GeneratedData(<<Move("b")>>, <<>>, <<>>),
   GeneratedData(<<>>, <<>>, <<"a">>),
   GeneratedData(<<>>, <<Seed>>, <<>>),
   GeneratedData(<<>>, <<Sapling>>, <<>>),
   GeneratedData(<<>>, <<Seed>>, <<"a">>),
   GeneratedData(<<Move("a")>>, <<>>, <<"a">>),
   GeneratedData(<<Forever>>, <<>>, <<>>)}
  \cup {GeneratedData(<<Plain(l)>>, <<>>, <<>>) : l \in 0..MaxLife}

\* the generator lists of a call, by what each generator returns: none, one or two
OutLists(G) ==
  {<<>>} \cup {<<g>> : g \in G} \cup {<<g, h>> : g \in G, h \in G}

RECURSIVE CountObjects(_, _)
CountObjects(outs, k) ==
  IF k > Len(outs) THEN 0
  ELSE Len(outs[k].generate_objects) + CountObjects(outs, k + 1)

InitialObjects(start_time) ==
  {<<>>,
   <<<<"a", MakeObject(Tree, start_time)>>>>,
   <<<<"a", MakeObject(Tree, start_time)>>, <<"b", MakeObject(Tree, start_time)>>>>}

\* let ctx = Context::new(start, o)
Init ==
  /\ \E a \in {0, MaxAll} :
       /\ epoch = TimeNew(a, MaxRatio, MaxRatio)
       /\ \E o \in InitialObjects(TimeNew(a, MaxRatio, MaxRatio)) :
            /\ ctx = ContextNew(TimeNew(a, MaxRatio, MaxRatio), o)
            /\ last = LastRun(FALSE, ContextNew(TimeNew(a, MaxRatio, MaxRatio), o),
                              <<>>, <<>>, NoRun)
  /\ ticks = 0
  /\ TimeIdle

\* run(&mut ctx, generate_functions)
RunTick(outs, ids) ==
  /\ LET r == Run(ctx, outs, ids)
     IN /\ ctx' = r.ctx
        /\ last' = LastRun(TRUE, ctx, outs, ids, r)
  /\ ticks' = ticks + 1
  /\ UNCHANGED <<t, tlast, pure, calls, epoch>>

\* one call of run, any generator outputs
Next ==
  /\ ticks < MaxTick
  /\ \E outs \in OutLists(GenOutputs) :
       \E ids \in [1..CountObjects(outs, 1) -> Ids] : RunTick(outs, ids)

Spec == Init /\ [][Next]_vars

\* what one generator may return in the specification of several ticks
TickOutputs ==
  {GeneratedData(<<>>, <<>>, <<>>),
   GeneratedData(<<Move("a")>>, <<>>, <<>>),
   GeneratedData(<<>>, <<>>, <<"a">>),
   GeneratedData(<<Forever>>, <<>>, <<>>),
   GeneratedData(<<Forever, Plain(0)>>, <<>>, <<>>)}
  \cup {GeneratedData(<<Plain(l)>>, <<>>, <<>>) : l \in 0..MaxLife}

\* several calls of run in a row
TicksNext ==
  /\ ticks < MaxTicks
  /\ \E outs \in OutLists(TickOutputs) : RunTick(outs, <<>>)

SpecTicks == Init /\ [][TicksNext]_vars

----------------------------------------------------------------------------
(* Claims about Time *)

\* C1: t.plus(n) leaves t field-for-field equal to
\* Time::new(t.all + n, t.one_day_of_time, t.one_year_of_day), for every t built
\* by Time::new with non-zero ratios and advanced by plus/plus_one.
C1_PlusEqualsNew ==
  (pure /\ tlast.op = "plus" /\ ~tlast.panic) =>
    t = TimeNew(tlast.pre.all + tlast.args[1],
                tlast.pre.one_day_of_time, tlast.pre.one_year_of_day)

\* C2: for every Time produced by Time::new with non-zero ratios and then by
\* plus, plus_one, add and minus, all = day * one_day_of_time + remainder_time
\* and remainder_time < one_day_of_time.
C2_TickDayInvariant ==
  pure => /\ t.all = t.day * t.one_day_of_time + t.remainder_time
          /\ t.remainder_time < t.one_day_of_time

\* C2 witness: a plus that carried into the day and left a remainder
C2_Witness ==
  /\ pure
  /\ tlast.op = "plus"
  /\ ~tlast.panic
  /\ t.day > tlast.pre.day
  /\ t.remainder_time > 0
  /\ tlast.pre.remainder_time > 0

\* C3: for every Time produced by Time::new with non-zero ratios and then by
\* plus, plus_one, add and minus, day = year * one_year_of_day + remainder_day.
C3_DayYearInvariant ==
  pure => t.day = t.year * t.one_year_of_day + t.remainder_day

\* C10 as stated: from Time::new(0, d, y), after d plus_one calls day = 1 and
\* remainder_time = 0, and after d*y further calls year = 1 and remainder_day = 0.
C10_CarryAsStated ==
  /\ calls = t.one_day_of_time => (t.day = 1 /\ t.remainder_time = 0)
  /\ calls = t.one_day_of_time + t.one_day_of_time * t.one_year_of_day =>
       (t.year = 1 /\ t.remainder_day = 0)

\* C10 amended: from Time::new(0, d, y), after d plus_one calls day = 1 and
\* remainder_time = 0; after d*y further calls day = y + 1, so year = 1 and
\* remainder_day = 1 when y > 1 (year = 2 and remainder_day = 0 when y = 1).
C10_Carry ==
  /\ calls = t.one_day_of_time => (t.day = 1 /\ t.remainder_time = 0)
  /\ calls = t.one_day_of_time + t.one_day_of_time * t.one_year_of_day =>
       /\ t.day = t.one_year_of_day + 1
       /\ IF t.one_year_of_day > 1
          THEN t.year = 1 /\ t.remainder_day = 1
          ELSE t.year = 2 /\ t.remainder_day = 0

\* C10 witness: the 24/365 calendar after 24 + 24*365 plus_one calls
C10_Witness ==
  /\ t.one_day_of_time = DAY_OF_TIME
  /\ t.one_year_of_day = YEAR_OF_DAY
  /\ calls = DAY_OF_TIME + DAY_OF_TIME * YEAR_OF_DAY
  /\ t.year = 1
  /\ t.remainder_day = 1

----------------------------------------------------------------------------
(* Claims about run *)

\* the concatenation of a sequence of sequences
RECURSIVE Flat(_, _)
Flat(seqs, k) == IF k > Len(seqs) THEN <<>> ELSE seqs[k] \o Flat(seqs, k + 1)

AllEvents(outs) == Flat([k \in 1..Len(outs) |-> outs[k].events], 1)
AllGenerated(outs) == Flat([k \in 1..Len(outs) |-> outs[k].generate_objects], 1)
AllRemoved(outs) == Flat([k \in 1..Len(outs) |-> outs[k].remove_objects], 1)
Elems(seq) == {seq[i] : i \in 1..Len(seq)}

Expired(e, now) ==
  e.lifetime.some /\ e.generated_time.all + e.lifetime.val.all < now.all

\* C4: at the end of every call of run, memory holds no event that has a
\* lifetime and satisfies generated_time.all + lifetime.all < ctx.time.all.
C4_ExpiredEvicted ==
  last.ran => \A e \in Elems(ctx.memory) : ~Expired(e, ctx.time)

\* C5: an event with a lifetime that was in memory before a call of run and has
\* generated_time.all + lifetime.all >= ctx.time.all is still in memory after it.
C5_NoEarlyEviction ==
  last.ran =>
    \A e \in Elems(last.pre.memory) :
      (e.lifetime.some /\ ~Expired(e, ctx.time)) => e \in Elems(ctx.memory)

\* C6: when an event of this tick carries the relocation (id, p) and id is in
\* the registry after the tick's removals (and no generated object takes that
\* id), then after run objects[id].point = p with generated_time and object_type
\* unchanged, and a tick of relocations only leaves the set of ids unchanged.
C6_RelocationApplied ==
  last.ran =>
    /\ \A e \in Elems(AllEvents(last.outs)) :
         LET mv == e.move_object_opt
         IN (/\ mv.some
             /\ mv.val[1] \in DOMAIN last.pre.objects
             /\ mv.val[1] \notin Elems(AllRemoved(last.outs))
             /\ mv.val[1] \notin Elems(last.ids)) =>
              /\ mv.val[1] \in DOMAIN ctx.objects
              /\ ctx.objects[mv.val[1]].point = mv.val[2]
              /\ ctx.objects[mv.val[1]].generated_time =
                   last.pre.objects[mv.val[1]].generated_time
              /\ ctx.objects[mv.val[1]].object_type =
                   last.pre.objects[mv.val[1]].object_type
    /\ (AllGenerated(last.outs) = <<>> /\ AllRemoved(last.outs) = <<>>) =>
         DOMAIN ctx.objects = DOMAIN last.pre.objects

\* C7: every call of run increases ctx.time.all by exactly one, whatever the
\* generators return; after k calls it is the initial value plus k.
C7_MonotonicTime ==
  /\ last.ran => ctx.time.all = last.pre.time.all + 1
  /\ ctx.time.all = epoch.all + ticks

\* C7 witness: two calls made, the second with two generators returning output
C7_Witness ==
  /\ ticks = 2
  /\ last.ran
  /\ Len(last.outs) = 2
  /\ AllEvents(last.outs) # <<>>
  /\ ctx.time.all = epoch.all + 2

\* the case of C8: the registry holds only X, one generator returns
\* remove_objects = [X], the same or a later one returns one generate_objects
\* entry, and nothing else is returned
C8_Case ==
  /\ last.ran
  /\ Cardinality(DOMAIN last.pre.objects) = 1
  /\ AllEvents(last.outs) = <<>>
  /\ Len(AllRemoved(last.outs)) = 1
  /\ AllRemoved(last.outs)[1] \in DOMAIN last.pre.objects
  /\ Len(AllGenerated(last.outs)) = 1
  /\ \E i \in 1..Len(last.outs), j \in 1..Len(last.outs) :
       /\ i <= j
       /\ last.outs[i].remove_objects # <<>>
       /\ last.outs[j].generate_objects # <<>>

\* C8: in that case the tick ends with exactly one entry in the registry, the
\* newly generated object.
C8_RemovalBeforeInsertion ==
  C8_Case =>
    /\ Cardinality(DOMAIN ctx.objects) = 1
    /\ DOMAIN ctx.objects = {last.ids[1]}
    /\ ctx.objects[last.ids[1]] = MakeObject(AllGenerated(last.outs)[1], ctx.time)

\* C8 witness: the removing generator comes first, the generating one second,
\* and the new object gets another id than the removed one
C8_Witness ==
  /\ C8_Case
  /\ Len(last.outs) = 2
  /\ last.outs[1].remove_objects # <<>>
  /\ last.outs[2].generate_objects # <<>>
  /\ last.ids[1] \notin DOMAIN last.pre.objects
  /\ Cardinality(DOMAIN ctx.objects) = 1

\* C9: within one call of run every generator is called on the same world
\* state: the registry and event log the k-th generator sees are those the first
\* sees, which are the registry before the call and the memory after eviction.
C9_GeneratorIsolation ==
  last.ran =>
    /\ Len(last.views) = Len(last.outs)
    /\ \A k \in 1..Len(last.views) :
         /\ last.views[k].objects = last.views[1].objects
         /\ last.views[k].memory = last.views[1].memory
         /\ last.views[k].objects = last.pre.objects

\* C9 witness: the first generator removes a live object and returns an event,
\* and the second still sees that object and not the event
C9_Witness ==
  /\ last.ran
  /\ Len(last.outs) = 2
  /\ last.outs[1].remove_objects = <<"a">>
  /\ "a" \in DOMAIN last.pre.objects
  /\ "a" \in DOMAIN last.views[2].objects
  /\ "a" \notin DOMAIN ctx.objects
  /\ last.pre.memory # <<>>

\* C11: an event without a lifetime that is in memory before a call of run is
\* in memory after it, and one appended by the call is in memory at its end.
C11_ForeverRetained ==
  last.ran =>
    /\ \A e \in Elems(last.pre.memory) : ~e.lifetime.some => e \in Elems(ctx.memory)
    /\ \A c \in Elems(AllEvents(last.outs)) :
         ~c.lifetime.some =>
           \E e \in Elems(ctx.memory) : e.contents = c /\ e.generated_time = ctx.time

\* C11 witness: an event without lifetime appended by the first tick is still
\* in memory after the second
C11_Witness ==
  /\ last.ran
  /\ ticks = 2
  /\ \E e \in Elems(last.pre.memory) :
       /\ ~e.lifetime.some
       /\ e.generated_time.all < ctx.time.all
       /\ e \in Elems(ctx.memory)

\* C12: for a Time a with non-zero ratios, a.minus(b) returns None exactly when
\* b.all > a.all (a is then left as it was), and otherwise returns
\* Some(Time::new(a.all - b.all, a.one_day_of_time, a.one_year_of_day)).
C12_MinusNoUnderflow ==
  (/\ tlast.op = "minus"
   /\ tlast.pre.one_day_of_time # 0
   /\ tlast.pre.one_year_of_day # 0) =>
     /\ ~tlast.panic
     /\ tlast.none <=> tlast.args[1] > tlast.pre.all
     /\ tlast.none => t = tlast.pre
     /\ ~tlast.none =>
          t = TimeNew(tlast.pre.all - tlast.args[1],
                      tlast.pre.one_day_of_time, tlast.pre.one_year_of_day)

\* C12 witness: a subtraction that would underflow
C12_Witness ==
  /\ tlast.op = "minus"
  /\ tlast.none
  /\ tlast.pre.all > 0
  /\ tlast.args[1] > tlast.pre.all
  /\ t = tlast.pre

\* C14: constructing a Time with one_day_of_time = 0 or one_year_of_day = 0
\* aborts, so no Time value returned by Time::new or Time::make has a zero ratio.
C14_ZeroRatiosRejected ==
  /\ (tlast.op = "new" /\ DivPanics(tlast.args[2], tlast.args[3])) => tlast.panic
  /\ (tlast.op = "make" /\ DivPanics(tlast.args[4], tlast.args[5])) => tlast.panic
  /\ t.one_day_of_time # 0
  /\ t.one_year_of_day # 0

\* C20: t.change_rule(d, y) with non-zero d, y never changes t.all; and for a t
\* produced by Time::new with non-zero ratios and plus/plus_one (add, minus),
\* t.change_rule(t.one_day_of_time, t.one_year_of_day) leaves every field as it was.
C20_ChangeRuleNoOp ==
  [][(tlast'.op = "change_rule" /\ ~tlast'.panic) =>
       /\ t'.all = t.all
       /\ (pure /\ tlast'.args = <<t.one_day_of_time, t.one_year_of_day>>) => t' = t]_vars

\* C20 witness: change_rule with its own ratios was called on a Time that
\* Time::new and a plus produce, with a day and a remainder, and left it as it was
C20_Witness ==
  /\ tlast.op = "change_rule"
  /\ ~tlast.panic
  /\ tlast.args = <<tlast.pre.one_day_of_time, tlast.pre.one_year_of_day>>
  /\ \E a \in Alls, n \in 1..MaxAll :
       tlast.pre = TimePlus(TimeNew(a, tlast.args[1], tlast.args[2]), n)
  /\ tlast.pre.day > 0
  /\ tlast.pre.remainder_time > 0
  /\ t = tlast.pre

\* the generator outputs without the events equal to c
WithoutEvent(outs, c) ==
  [k \in 1..Len(outs) |->
     [outs[k] EXCEPT !.events = SelectSeq(@, LAMBDA x : x # c)]]

\* the ids live at the relocation step: in the registry before the call and
\* not removed by this tick
LiveIds == (DOMAIN last.pre.objects) \ Elems(AllRemoved(last.outs))

\* an event of the last call that relocates an id absent from the registry
MissingMoves ==
  {c \in Elems(AllEvents(last.outs)) :
     c.move_object_opt.some /\ c.move_object_opt.val[1] \notin LiveIds}

\* C13: a relocation naming an id absent from the registry is dropped: run
\* completes, the relocation creates no entry under that id, the registry is
\* what it would be without that event, and the event is appended to memory.
C13_MissingRelocationDropped ==
  last.ran =>
    \A c \in MissingMoves :
      /\ c.move_object_opt.val[1] \notin Elems(last.ids) =>
           c.move_object_opt.val[1] \notin DOMAIN ctx.objects
      /\ ctx.objects = Run(last.pre, WithoutEvent(last.outs, c), last.ids).ctx.objects
      /\ \E e \in Elems(ctx.memory) : e.contents = c /\ e.generated_time = ctx.time

\* C13 witness: the registry holds "a" only and an event relocates "b"
C13_Witness ==
  /\ last.ran
  /\ "a" \in DOMAIN last.pre.objects
  /\ "b" \notin DOMAIN last.pre.objects
  /\ \E c \in MissingMoves : c.move_object_opt.val[1] = "b"
  /\ "b" \notin DOMAIN ctx.objects
  /\ "a" \in DOMAIN ctx.objects

\* the generator outputs with every remove_objects list emptied
WithoutRemovals(outs) ==
  [k \in 1..Len(outs) |-> [outs[k] EXCEPT !.remove_objects = <<>>]]

\* the ids named by a relocation event of the last call
MoveTargets ==
  {c.move_object_opt.val[1] :
     c \in {x \in Elems(AllEvents(last.outs)) : x.move_object_opt.some}}

\* C15: every id in some generator's remove_objects is absent from the registry
\* at the end of run, also when an event of the tick relocates it, unless a
\* generated object is inserted under that id; removing ids that are not in the
\* registry changes nothing.
C15_RemovalWins ==
  last.ran =>
    /\ \A id \in Elems(AllRemoved(last.outs)) :
         id \notin Elems(last.ids) => id \notin DOMAIN ctx.objects
    /\ (Elems(AllRemoved(last.outs)) \cap DOMAIN last.pre.objects = {}) =>
         ctx.objects = Run(last.pre, WithoutRemovals(last.outs), last.ids).ctx.objects

\* C15 witness: a live object is removed and relocated by the same tick
C15_Witness ==
  /\ last.ran
  /\ "a" \in DOMAIN last.pre.objects
  /\ "a" \in Elems(AllRemoved(last.outs))
  /\ "a" \in MoveTargets
  /\ "a" \notin DOMAIN ctx.objects

\* C19: a registry entry whose id is not removed, not the target of a
\* relocation event and not assigned to a generated object in this tick is left
\* exactly as it was; a tick whose generators return nothing leaves the
\* registry unchanged.
C19_RegistryFrame ==
  last.ran =>
    /\ \A id \in DOMAIN last.pre.objects :
         (/\ id \notin Elems(AllRemoved(last.outs))
          /\ id \notin MoveTargets
          /\ id \notin Elems(last.ids)) =>
            /\ id \in DOMAIN ctx.objects
            /\ ctx.objects[id] = last.pre.objects[id]
    /\ (/\ AllEvents(last.outs) = <<>>
        /\ AllGenerated(last.outs) = <<>>
        /\ AllRemoved(last.outs) = <<>>) => ctx.objects = last.pre.objects

\* C19 witness: "a" is removed and an object is generated under another id
\* than "b", and "b" is as it was
C19_Witness ==
  /\ last.ran
  /\ {"a", "b"} \subseteq DOMAIN last.pre.objects
  /\ "a" \in Elems(AllRemoved(last.outs))
  /\ last.ids # <<>>
  /\ "b" \notin Elems(last.ids)
  /\ "b" \in DOMAIN ctx.objects
  /\ ctx.objects["b"] = last.pre.objects["b"]

\* s[i..] is a subsequence of u[j..]: the same elements in the same order,
\* some of u left out
RECURSIVE IsSubseq(_, _, _, _)
IsSubseq(s, u, i, j) ==
  IF i > Len(s) THEN TRUE
  ELSE IF j > Len(u) THEN FALSE
  ELSE IF s[i] = u[j] THEN IsSubseq(s, u, i + 1, j + 1)
  ELSE IsSubseq(s, u, i, j + 1)

\* the number of events in memory that come from before the last call
Survivors == Len(ctx.memory) - Len(AllEvents(last.outs))

\* C16: after run, memory is surviving events of the memory before the call,
\* in their order, followed by this tick's events in generator order and, within
\* a generator, in the order of its events list; each new event has
\* generated_time = ctx.time, lifetime = contents.lifetime(), do_object =
\* contents.do_object() and target_object = contents.target_object_opt().
C16_MemoryOrderAndStamp ==
  last.ran =>
    /\ Survivors >= 0
    /\ IsSubseq(SubSeq(ctx.memory, 1, Survivors), last.pre.memory, 1, 1)
    /\ \A i \in 1..Len(AllEvents(last.outs)) :
         LET c == AllEvents(last.outs)[i]
         IN ctx.memory[Survivors + i] =
              [generated_time |-> ctx.time,
               lifetime |-> c.lifetime,
               contents |-> c,
               do_object |-> c.do_object,
               target_object |-> c.target_object_opt]

\* C16 witness: an earlier event survives, the first generator returns two
\* events and the second one
C16_Witness ==
  /\ last.ran
  /\ Survivors >= 1
  /\ Len(last.outs) = 2
  /\ Len(last.outs[1].events) = 2
  /\ Len(last.outs[2].events) = 1
  /\ last.outs[2].events[1].lifetime.some
  /\ Len(ctx.memory) = Survivors + 3

\* the registry entry run builds for the i-th generated object of the last call
Entry(i) ==
  [generated_time |-> ctx.time,
   point |-> AllGenerated(last.outs)[i].generated_point,
   object_type |-> AllGenerated(last.outs)[i]]

\* the ids of the last call are pairwise distinct
DistinctIds == \A i, j \in DOMAIN last.ids : i # j => last.ids[i] # last.ids[j]

\* none of the ids of the last call was in the registry before the call
FreshIds == \A i \in DOMAIN last.ids : last.ids[i] \notin DOMAIN last.pre.objects

\* C17 as stated: for every generated object variant o the registry holds at
\* the end of run an entry with generated_time = this tick's time, point =
\* o.generated_point() and object_type = o; when the assigned ids are pairwise
\* distinct and not already present, the registry grows by exactly the number
\* of generated objects.
C17_InsertionAsStated ==
  last.ran =>
    /\ \A i \in DOMAIN last.ids :
         \E id \in DOMAIN ctx.objects : ctx.objects[id] = Entry(i)
    /\ (DistinctIds /\ FreshIds) =>
         Cardinality(DOMAIN ctx.objects) =
           Cardinality(DOMAIN last.pre.objects) + Len(last.ids)

\* C17: every generated object is in the registry under its assigned id, with
\* generated_time = this tick's time, point = o.generated_point() and
\* object_type = o, unless a later generated object of the tick got the same
\* id; when the assigned ids are pairwise distinct and not already present, the
\* registry has exactly the entries left after the removals plus one per
\* generated object.
C17_Insertion ==
  last.ran =>
    /\ \A i \in DOMAIN last.ids :
         (\A j \in DOMAIN last.ids : j > i => last.ids[j] # last.ids[i]) =>
           /\ last.ids[i] \in DOMAIN ctx.objects
           /\ ctx.objects[last.ids[i]] = Entry(i)
    /\ (DistinctIds /\ FreshIds) =>
         Cardinality(DOMAIN ctx.objects) = Cardinality(LiveIds) + Len(last.ids)

\* C17 witness: two different variants were generated under distinct ids into
\* an empty registry
C17_Witness ==
  /\ last.ran
  /\ Len(last.ids) = 2
  /\ DistinctIds
  /\ AllGenerated(last.outs)[1] # AllGenerated(last.outs)[2]
  /\ last.pre.objects = <<>>
  /\ DOMAIN ctx.objects = {"a", "b"}

\* the two generators of the last call in the other order, every generated
\* object keeping the id it was assigned
SwappedOuts == <<last.outs[2], last.outs[1]>>
SwappedIds ==
  LET n1 == Len(last.outs[1].generate_objects)
  IN SubSeq(last.ids, n1 + 1, Len(last.ids)) \o SubSeq(last.ids, 1, n1)
Swapped == Run(last.pre, SwappedOuts, SwappedIds)

\* the two sequences hold the same elements the same number of times
SameCollection(s, u) ==
  /\ Len(s) = Len(u)
  /\ \A e \in Elems(s) \cup Elems(u) :
       Cardinality({i \in DOMAIN s : s[i] = e}) = Cardinality({i \in DOMAIN u : u[i] = e})

\* the tick with the generators in the other order gives the same world
SameWorld ==
  /\ Swapped.ctx.time = ctx.time
  /\ Swapped.ctx.objects = ctx.objects
  /\ SameCollection(Swapped.ctx.memory, ctx.memory)
  /\ SameCollection(Swapped.ret, last.ret)

\* C18 as stated: from the same pre-tick state, a tick with the generator list
\* permuted yields the same ctx.time, the same registry (each generated object
\* keeping its id) and the same collection of events in memory; only the order
\* of the new events and of the returned list may differ.
C18_OrderIrrelevantAsStated ==
  (last.ran /\ Len(last.outs) = 2) => SameWorld

\* C18: the same, provided the ids assigned to the generated objects of the
\* tick are pairwise distinct.
C18_OrderIrrelevant ==
  (last.ran /\ Len(last.outs) = 2 /\ DistinctIds) => SameWorld

\* C18 witness: two generators that differ, one removing an object of the
\* registry and generating, the other generating a different variant, under
\* distinct ids
C18_Witness ==
  /\ last.ran
  /\ Len(last.outs) = 2
  /\ last.outs[1].remove_objects = <<"a">>
  /\ "a" \in DOMAIN last.pre.objects
  /\ last.outs[1].generate_objects = <<Seed>>
  /\ last.outs[2].generate_objects = <<Sapling>>
  /\ DistinctIds
  /\ SameWorld

====
